---- MODULE Spec2Model ----
(***************************************************************************)
(* Model of example/lambdas/python-processing/process_activity.py:         *)
(* PythonProcess.process() and its helpers add_ancillary_file,             *)
(* _get_md5_sum and _write_md5sum_file.                                    *)
(*                                                                         *)
(* Strings that the code takes apart or concatenates (file names, paths,   *)
(* S3 keys, config values) are sequences of one-character strings.  File   *)
(* contents are sequences of written chunks.                               *)
(***************************************************************************)
EXTENDS Integers, Sequences, FiniteSets, TLC

VARIABLES
    supplied,              \* history: the job input as the caller supplied it
    payload,               \* the caller-owned job input object (a dict with key 'granules')
    self_input,            \* the handler attribute self.input: a reference to payload, or a list
    config,                \* self.config
    pc,                    \* position of the handler inside process()
    invocation,            \* how many times process() has been invoked on this handler
    granules,              \* local: the deep copy of the granule list
    original_file_names,   \* local
    local_data_file_list,  \* local: what fetch returned
    metadata_file_list,    \* local: the keys map() has produced so far
    idx,                   \* position of map() in local_data_file_list
    md5_sum,               \* local of add_ancillary_file
    files,                 \* local file system: sidecar path -> content
    s3,                    \* remote store: key -> content
    result,                \* what the last invocation of process() returned
    error,                 \* the failure the last invocation of process() raised
    log                    \* history of the external effects, in order

vars == <<supplied, payload, self_input, config, pc, invocation, granules, original_file_names,
          local_data_file_list, metadata_file_list, idx, md5_sum, files, s3, result,
          error, log>>

----------------------------------------------------------------------------
(* Bounds *)

MaxGranules == 2
MaxFiles == 2
MaxInvocations == 2

----------------------------------------------------------------------------
(* Input universe *)

Slash == "/"
Newline == "\n"

ModisHdf == <<"m","o","d","i","s",".","h","d","f">>
DirGHdf == <<"d","/","g",".","h","d","f">>
XHdf == <<"x","h","d","f">>
BHdf == <<"b",".","h","d","f">>

FileEntries ==
    { [filename |-> ModisHdf,    type |-> "data"],
      [filename |-> DirGHdf,     type |-> "data"],
      [filename |-> XHdf,        type |-> "data"],
      [filename |-> ModisHdf,    type |-> "metadata"],
      [filename |-> BHdf,        type |-> "metadata"] }

Configs ==
    { [collection |-> [name |-> <<"M","O","D","0","9">>, version |-> <<"0","0","6">>],
       buckets |-> [internal |-> [name |-> <<"m","y","b","u","c","k","e","t">>]],
       stack |-> <<"d","e","v">>],
      [collection |-> [name |-> <<"V">>, version |-> <<"1">>],
       buckets |-> [internal |-> [name |-> <<"b">>]],
       stack |-> <<"p">>] }

\* Byte contents a data file may hold when it is read.
Contents == {"", "test"}

\* Directory the external fetch downloads into.
TmpDir == <<"/","t","/">>

SeqsUpTo(S, n) == UNION { [1..k -> S] : k \in 0..n }

RECURSIVE PayloadsOf(_, _)
PayloadsOf(g, n) ==
    IF g = 0 THEN { <<>> }
    ELSE { <<>> } \cup
         UNION { { <<[files |-> fs]>> \o rest : rest \in PayloadsOf(g - 1, n - Len(fs)) }
                 : fs \in SeqsUpTo(FileEntries, n) }

Payloads == PayloadsOf(MaxGranules, MaxFiles)

NoResult == [none |-> TRUE]
EmptyFn == [x \in {} |-> x]

----------------------------------------------------------------------------
(* Pure helpers *)

\* hashlib.md5(bytes).hexdigest() on the modelled contents (the real digests).
md5(bytes) ==
    CASE bytes = ""     -> "d41d8cd98f00b204e9800998ecf8427e"
      [] bytes = "test" -> "098f6bcd4621d373cade4e832627b4f6"

\* PythonProcess.input_keys: key -> regular expression, as a token sequence.
Tok(t, c) == [t |-> t, c |-> c]

input_keysUnescapedDot ==
    [ hdf |-> << Tok("bol", ""), Tok("dotstar", ""), Tok("dot", ""), Tok("lit", "h"),
                 Tok("lit", "d"), Tok("lit", "f"), Tok("eol", "") >>,
      all |-> << Tok("dotstar", "") >> ]

input_keys ==
    [ hdf |-> << Tok("bol", ""), Tok("dotstar", ""), Tok("lit", "."), Tok("lit", "h"),
                 Tok("lit", "d"), Tok("lit", "f"), Tok("eol", "") >>,
      all |-> << Tok("dotstar", "") >> ]

\* Python re.match: the pattern must match at the start of s; '.' is any
\* character but a newline; '$' is the end of s or just before a final newline.
RECURSIVE MatchFrom(_, _, _, _)
MatchFrom(pat, i, s, j) ==
    IF i > Len(pat) THEN TRUE
    ELSE CASE pat[i].t = "bol" -> j = 1 /\ MatchFrom(pat, i + 1, s, j)
           [] pat[i].t = "eol" ->
                /\ \/ j = Len(s) + 1
                   \/ (j = Len(s) /\ s[j] = Newline)
                /\ MatchFrom(pat, i + 1, s, j)
           [] pat[i].t = "lit" ->
                /\ j <= Len(s)
                /\ s[j] = pat[i].c
                /\ MatchFrom(pat, i + 1, s, j + 1)
           [] pat[i].t = "dot" ->
                /\ j <= Len(s)
                /\ s[j] # Newline
                /\ MatchFrom(pat, i + 1, s, j + 1)
           [] pat[i].t = "dotstar" ->
                \E k \in j..(Len(s) + 1) :
                    /\ \A m \in j..(k - 1) : s[m] # Newline
                    /\ MatchFrom(pat, i + 1, s, k)

ReMatch(pat, s) == MatchFrom(pat, 1, s, 1)

\* os.path.split(p)[1]: what follows the last '/'.
LastSlash(p) ==
    LET at == { i \in 1..Len(p) : p[i] = Slash }
    IN  IF at = {} THEN 0 ELSE CHOOSE i \in at : \A k \in at : k <= i

SplitTail(p) == SubSeq(p, LastSlash(p) + 1, Len(p))

Md5Suffix == <<".","m","d","5">>

\* line 52: md5_file = f'{local_file}.md5'
Md5File(local_file) == local_file \o Md5Suffix

\* line 53: filename = os.path.split(md5_file)[1]
KeyFileNameWholePath(md5_file) == md5_file
KeyFileName(md5_file) == SplitTail(md5_file)

\* lines 54-55
CollectionString(cfg) ==
    cfg.collection.name \o <<"_","_">> \o cfg.collection.version

\* lines 56-57
Md5Key(cfg, md5_file) ==
    <<"s","3",":","/","/">> \o cfg.buckets.internal.name
        \o <<"/","s","t","a","g","i","n","g","/">>
        \o cfg.stack \o <<"/">> \o CollectionString(cfg) \o <<"/">> \o KeyFileName(md5_file)

\* line 64: write_file.write(md5_sum) into the file opened with 'w' (truncated)
WriteContentWithNewline(sum) == <<sum, Newline>>
WriteContent(sum) == <<sum>>

\* copy.deepcopy: a new object with the same value
DeepCopy(v) == v

\* line 36-37: [file['filename'] for granule in granules for file in granule['files']]
RECURSIVE AllFiles(_)
AllFiles(gs) ==
    IF gs = <<>> THEN <<>> ELSE Head(gs).files \o AllFiles(Tail(gs))

NamesOf(fs) == [i \in 1..Len(fs) |-> fs[i].filename]

OriginalFileNames(gs) == NamesOf(AllFiles(gs))

\* line 38-39: ... if file['type'] == 'data'
IsDataAnyType(f) == TRUE
IsData(f) == f.type = "data"

DataFileNames(gs) == NamesOf(SelectSeq(AllFiles(gs), IsData))

\* line 38: self.input = [...] rebinds the attribute; the payload object is untouched
ListValue(names) == [kind |-> "list", items |-> names]
PayloadRef == [kind |-> "ref", items |-> <<>>]

AssignInputInPlace(p, names) ==
    [payload |-> [p EXCEPT !.granules = names], self_input |-> PayloadRef]
AssignInput(p, names) ==
    [payload |-> p, self_input |-> ListValue(names)]

\* line 40: the key process() fetches under
FetchKeyAll == "all"
FetchKey == "hdf"

\* Process.fetch(key, remote=False): the inputs whose name matches the key's
\* pattern, in input order, each resolved to a local path (the download
\* directory plus the input's base name).
LocalPath(f) == TmpDir \o SplitTail(f)

Fetch(key, inputs) ==
    LET hit == SelectSeq(inputs, LAMBDA f : ReMatch(input_keys[key], f))
    IN  [i \in 1..Len(hit) |-> LocalPath(hit[i])]

\* line 44: return metadata_file_list + original_file_names
ReturnValueNamesFirst(meta, names) == names \o meta
ReturnValue(meta, names) == meta \o names

\* lines 40-44 and 46-60 hold no try/except: an exception leaves process()
OnFailureSwallow == "clean"
OnFailure == "failed"

\* line 43 follows the map of lines 41-42; line 44 follows line 43
PcWhenMapDoneSkipClean == "return"
PcWhenMapDone == "clean"

Event(inv, op, path, key, content) ==
    [inv |-> inv, op |-> op, path |-> path, key |-> key, content |-> content]

----------------------------------------------------------------------------
(* State machine *)

Init ==
    /\ payload \in { [granules |-> gs] : gs \in Payloads }
    /\ supplied = payload
    /\ self_input = PayloadRef
    /\ config \in Configs
    /\ pc = "idle"
    /\ invocation = 0
    /\ granules = <<>>
    /\ original_file_names = <<>>
    /\ local_data_file_list = <<>>
    /\ metadata_file_list = <<>>
    /\ idx = 0
    /\ md5_sum = ""
    /\ files = EmptyFn
    /\ s3 = EmptyFn
    /\ result = NoResult
    /\ error = "none"
    /\ log = <<>>

locals == <<granules, original_file_names, local_data_file_list, metadata_file_list,
            idx, md5_sum>>

\* An exception propagates out of process(): no value is returned.
Raise(err, path) ==
    /\ pc' = OnFailure
    /\ error' = err
    /\ result' = NoResult
    /\ log' = Append(log, Event(invocation, "fail", path, <<>>, <<>>))

\* lines 31-39: process() is entered; the granules are copied, the names
\* collected and self.input rebound to the names of the data files.
ProcessBegin ==
    /\ pc \in {"idle", "done", "failed"}
    /\ invocation < MaxInvocations
    /\ self_input.kind = "ref"
    /\ invocation' = invocation + 1
    /\ LET gs == DeepCopy(payload.granules)
           new == AssignInput(payload, DataFileNames(gs))
       IN  /\ granules' = gs
           /\ original_file_names' = OriginalFileNames(gs)
           /\ payload' = new.payload
           /\ self_input' = new.self_input
    /\ local_data_file_list' = <<>>
    /\ metadata_file_list' = <<>>
    /\ idx' = 0
    /\ md5_sum' = ""
    /\ result' = NoResult
    /\ error' = "none"
    /\ pc' = "fetch"
    /\ UNCHANGED <<supplied, config, files, s3, log>>

\* line 32 on a handler whose self.input is a list: self.input['granules']
\* raises TypeError.
ProcessBeginTypeError ==
    /\ pc \in {"idle", "done", "failed"}
    /\ invocation < MaxInvocations
    /\ self_input.kind = "list"
    /\ invocation' = invocation + 1
    /\ pc' = "failed"
    /\ error' = "TypeError"
    /\ result' = NoResult
    /\ log' = Append(log, Event(invocation + 1, "fail", <<>>, <<>>, <<>>))
    /\ UNCHANGED <<supplied, payload, self_input, config, locals, files, s3>>

\* line 40: local_data_file_list = self.fetch('hdf', remote=False)
FetchOk ==
    /\ pc = "fetch"
    /\ local_data_file_list' = Fetch(FetchKey, self_input.items)
    /\ log' = Append(log, Event(invocation, "fetch", <<>>, <<>>, <<>>))
    /\ idx' = 1
    /\ pc' = IF local_data_file_list' = <<>> THEN PcWhenMapDone ELSE "read"
    /\ UNCHANGED <<supplied, payload, self_input, config, invocation, granules,
                   original_file_names, metadata_file_list, md5_sum, files, s3,
                   result, error>>

FetchFail ==
    /\ pc = "fetch"
    /\ Raise("FetchError", <<>>)
    /\ UNCHANGED <<supplied, payload, self_input, config, invocation, locals, files, s3>>

\* lines 50, 66-69: md5_sum = md5(file.read()).hexdigest()
ReadOk ==
    /\ pc = "read"
    /\ \E bytes \in Contents :
         /\ md5_sum' = md5(bytes)
         /\ log' = Append(log, Event(invocation, "read", local_data_file_list[idx],
                                     <<>>, <<bytes>>))
    /\ pc' = "write"
    /\ UNCHANGED <<supplied, payload, self_input, config, invocation, granules,
                   original_file_names, local_data_file_list, metadata_file_list,
                   idx, files, s3, result, error>>

\* line 67: open() of a missing or unreadable local file
ReadFail ==
    /\ pc = "read"
    /\ Raise("FileNotFoundError", local_data_file_list[idx])
    /\ UNCHANGED <<supplied, payload, self_input, config, invocation, locals, files, s3>>

\* lines 52-58, 62-64: the sidecar is written next to the local file
WriteOk ==
    /\ pc = "write"
    /\ LET md5_file == Md5File(local_data_file_list[idx])
       IN  /\ files' = (md5_file :> WriteContent(md5_sum)) @@ files
           /\ log' = Append(log, Event(invocation, "write", md5_file, <<>>,
                                       WriteContent(md5_sum)))
    /\ pc' = "upload"
    /\ UNCHANGED <<supplied, payload, self_input, config, invocation, locals, s3, result, error>>

\* line 63-64: open(md5_file, 'w') or write() fails; open may already have
\* truncated the file
WriteFail ==
    /\ pc = "write"
    /\ LET md5_file == Md5File(local_data_file_list[idx])
       IN  /\ \/ files' = files
               \/ files' = (md5_file :> <<>>) @@ files
           /\ Raise("OSError", md5_file)
    /\ UNCHANGED <<supplied, payload, self_input, config, invocation, locals, s3>>

\* lines 59-60: upload(md5_file, md5_key); return md5_key
UploadOk ==
    /\ pc = "upload"
    /\ LET md5_file == Md5File(local_data_file_list[idx])
           md5_key == Md5Key(config, md5_file)
       IN  /\ s3' = (md5_key :> files[md5_file]) @@ s3
           /\ log' = Append(log, Event(invocation, "upload", md5_file, md5_key,
                                       files[md5_file]))
           /\ metadata_file_list' = Append(metadata_file_list, md5_key)
    /\ idx' = idx + 1
    /\ pc' = IF idx = Len(local_data_file_list) THEN PcWhenMapDone ELSE "read"
    /\ UNCHANGED <<supplied, payload, self_input, config, invocation, granules,
                   original_file_names, local_data_file_list, md5_sum, files,
                   result, error>>

UploadFail ==
    /\ pc = "upload"
    /\ Raise("UploadError", Md5File(local_data_file_list[idx]))
    /\ UNCHANGED <<supplied, payload, self_input, config, invocation, locals, files, s3>>

\* line 43: self.clean_output()
CleanOutput ==
    /\ pc = "clean"
    /\ log' = Append(log, Event(invocation, "clean", <<>>, <<>>, <<>>))
    /\ pc' = "return"
    /\ UNCHANGED <<supplied, payload, self_input, config, invocation, locals, files, s3,
                   result, error>>

\* line 44: return metadata_file_list + original_file_names
Return ==
    /\ pc = "return"
    /\ result' = ReturnValue(metadata_file_list, original_file_names)
    /\ log' = Append(log, Event(invocation, "return", <<>>, <<>>, result'))
    /\ pc' = "done"
    /\ UNCHANGED <<supplied, payload, self_input, config, invocation, locals, files, s3, error>>

Next ==
    \/ ProcessBegin
    \/ ProcessBeginTypeError
    \/ FetchOk
    \/ FetchFail
    \/ ReadOk
    \/ ReadFail
    \/ WriteOk
    \/ WriteFail
    \/ UploadOk
    \/ UploadFail
    \/ CleanOutput
    \/ Return

Spec == Init /\ [][Next]_vars

----------------------------------------------------------------------------
(* What the properties are stated with, defined apart from the model's own
   helpers. *)

\* The final path component of p: the suffix of p after its last '/'.
BaseName(p) ==
    LET cut == CHOOSE k \in 0..Len(p) :
                   /\ k = 0 \/ p[k] = Slash
                   /\ \A i \in (k + 1)..Len(p) : p[i] # Slash
    IN  SubSeq(p, cut + 1, Len(p))

EndsWithHdf(n) ==
    Len(n) >= 4 /\ SubSeq(n, Len(n) - 3, Len(n)) = <<".","h","d","f">>

\* s3://<bucket>/staging/<stack>/<name>__<version>/<base name of local file>.md5
ExpectedKey(cfg, local_file) ==
    <<"s","3",":","/","/">> \o cfg.buckets.internal.name
        \o <<"/","s","t","a","g","i","n","g","/">> \o cfg.stack
        \o <<"/">> \o cfg.collection.name \o <<"_","_">> \o cfg.collection.version
        \o <<"/">> \o BaseName(local_file) \o <<".","m","d","5">>

\* The file entries of a granule list in granule-then-file order.
FlatEntries(gs) ==
    LET flat[g \in 0..Len(gs)] ==
            IF g = 0 THEN <<>> ELSE flat[g - 1] \o gs[g].files
    IN  flat[Len(gs)]

SuppliedEntries == FlatEntries(supplied.granules)
SuppliedNames == [k \in 1..Len(SuppliedEntries) |-> SuppliedEntries[k].filename]

SuppliedData ==
    LET keep[k \in 0..Len(SuppliedEntries)] ==
            IF k = 0 THEN <<>>
            ELSE IF SuppliedEntries[k].type = "data"
                 THEN Append(keep[k - 1], SuppliedEntries[k])
                 ELSE keep[k - 1]
    IN  keep[Len(SuppliedEntries)]

SuppliedDataHdf ==
    LET keep[k \in 0..Len(SuppliedData)] ==
            IF k = 0 THEN <<>>
            ELSE IF EndsWithHdf(SuppliedData[k].filename)
                 THEN Append(keep[k - 1], SuppliedData[k])
                 ELSE keep[k - 1]
    IN  keep[Len(SuppliedData)]

Range(f) == { f[i] : i \in DOMAIN f }

\* The events of invocation v and the positions of the log holding them.
InvPositions(v) == { k \in 1..Len(log) : log[k].inv = v }
OpPositions(v, op) == { k \in InvPositions(v) : log[k].op = op }

\* How many sidecar keys the returned list starts with.
NumKeys == Len(result) - Len(SuppliedNames)

----------------------------------------------------------------------------
\* C1: a successful process() returns exactly the sidecar keys, one per local
\* path fetch returned and in that order, followed by the filename of every
\* file of every granule (data or not, duplicates kept) in granule-then-file
\* order.
C1_ReturnedList ==
    pc = "done" =>
        result = [i \in 1..Len(local_data_file_list) |->
                      ExpectedKey(config, local_data_file_list[i])]
                 \o SuppliedNames

C1_Witness ==
    /\ pc = "done"
    /\ Len(supplied.granules) = 2
    /\ Len(SuppliedEntries) = 2
    /\ Len(local_data_file_list) = 1
    /\ SuppliedEntries[1].type # "data"
    /\ SuppliedNames[1] = SuppliedNames[2]

\* C2 as stated: every file of type "data", whatever its name, has exactly one
\* sidecar key in the output of process().
C2_OneKeyPerDataFile ==
    pc = "done" =>
        \A k \in 1..Len(SuppliedData) :
            Cardinality({ i \in 1..NumKeys :
                            result[i] = ExpectedKey(config, SuppliedData[k].filename) }) = 1

\* C2 amended: the sidecar keys of the output correspond one to one, in
\* order, to the "data" file entries whose name ends in .hdf; a "data" entry
\* with another name, and an entry of another type, gets none.
C2_OneKeyPerHdfDataEntry ==
    pc = "done" =>
        /\ NumKeys = Len(SuppliedDataHdf)
        /\ \A i \in 1..NumKeys :
               result[i] = ExpectedKey(config, SuppliedDataHdf[i].filename)

C2_Witness ==
    /\ pc = "done"
    /\ Len(SuppliedDataHdf) = 1
    /\ NumKeys = 1
    /\ \E k \in 1..Len(SuppliedData) : ~EndsWithHdf(SuppliedData[k].filename)

\* C3: a file whose type is not "data" is never passed to fetch, read,
\* hashed, given a sidecar or uploaded, and no sidecar key is produced for it;
\* its filename is still in the original-filenames part of the returned list.
Md5Name(b) == b \o <<".","m","d","5">>

\* The base names of the files the log shows read, written or uploaded.
Touched ==
    { BaseName(log[k].path) :
        k \in { j \in 1..Len(log) : log[j].op \in {"read", "write", "upload"} } }

C3_NonDataNoSidecar ==
    LET entries == SuppliedEntries
        data == SuppliedData
        dataBases == { BaseName(data[k].filename) : k \in 1..Len(data) }
        nonDataOnly == { entries[k].filename : k \in 1..Len(entries) } \
                           { n \in Range(SuppliedNames) : BaseName(n) \in dataBases }
        touched == Touched
    IN  /\ self_input.kind = "list" =>
               self_input.items = [k \in 1..Len(data) |-> data[k].filename]
        /\ touched \subseteq (dataBases \cup { Md5Name(b) : b \in dataBases })
        /\ \A n \in nonDataOnly :
               /\ n \notin Range(self_input.items)
               /\ BaseName(n) \notin touched
               /\ Md5Name(BaseName(n)) \notin touched
               /\ ExpectedKey(config, n) \notin DOMAIN s3
               /\ pc = "done" =>
                      \A i \in 1..NumKeys : result[i] # ExpectedKey(config, n)
        /\ pc = "done" =>
               /\ NumKeys <= Len(data)
               /\ \A k \in 1..Len(entries) : result[NumKeys + k] = entries[k].filename

NonDataOnly(n) ==
    \A k \in 1..Len(SuppliedEntries) :
        BaseName(SuppliedEntries[k].filename) = BaseName(n)
            => SuppliedEntries[k].type # "data"

C3_Witness ==
    /\ pc = "done"
    /\ NumKeys = 1
    /\ \E k \in 1..Len(SuppliedEntries) :
           /\ SuppliedEntries[k].type # "data"
           /\ EndsWithHdf(SuppliedEntries[k].filename)
           /\ NonDataOnly(SuppliedEntries[k].filename)

\* C4: add_ancillary_file uploads to, and returns, the key
\* s3://<bucket>/staging/<stack>/<name>__<version>/<base name of local file>.md5:
\* the key uses the final path component of the local file and not its
\* directory, and the key returned is the key the sidecar was uploaded to.
UploadKeys(v) ==
    LET ups == SelectSeq(log, LAMBDA e : e.inv = v /\ e.op = "upload")
    IN  [i \in 1..Len(ups) |-> ups[i].key]

C4_RemoteKey ==
    /\ \A k \in 1..Len(log) :
           log[k].op = "upload" =>
               \E i \in 1..Len(local_data_file_list) :
                   /\ log[k].path = local_data_file_list[i] \o <<".","m","d","5">>
                   /\ log[k].key = ExpectedKey(config, local_data_file_list[i])
                   /\ log[k].key \in DOMAIN s3
    /\ metadata_file_list = UploadKeys(1)
    /\ DOMAIN s3 = Range(metadata_file_list)

C4_Witness ==
    /\ pc = "upload"
    /\ Len(metadata_file_list) = 1
    /\ LastSlash(local_data_file_list[1]) > 1
    /\ metadata_file_list[1] # local_data_file_list[1] \o <<".","m","d","5">>

\* C5: the sidecar written at <local_file>.md5 and then uploaded holds exactly
\* the digest of the bytes the data file held when it was read, and nothing
\* else; equal bytes give equal sidecar contents.
C5_SidecarContent ==
    /\ \A k \in 1..Len(log) :
           /\ log[k].op = "write" =>
                  /\ k > 1
                  /\ log[k - 1].op = "read"
                  /\ log[k - 1].inv = log[k].inv
                  /\ log[k].path = Md5Name(log[k - 1].path)
                  /\ log[k].content = << md5(log[k - 1].content[1]) >>
                  /\ log[k - 1].content = <<"test">> =>
                         log[k].content = <<"098f6bcd4621d373cade4e832627b4f6">>
           /\ log[k].op = "upload" =>
                  /\ k > 1
                  /\ log[k - 1].op = "write"
                  /\ log[k - 1].inv = log[k].inv
                  /\ log[k].path = log[k - 1].path
                  /\ log[k].content = log[k - 1].content
    /\ \A j, k \in 1..(Len(log) - 1) :
           (/\ log[j].op = "read"
            /\ log[k].op = "read"
            /\ log[j].content = log[k].content
            /\ log[j + 1].op = "write"
            /\ log[k + 1].op = "write") => log[j + 1].content = log[k + 1].content
    /\ \A key \in DOMAIN s3 :
           \E k \in 1..Len(log) :
               /\ log[k].op = "upload"
               /\ log[k].key = key
               /\ log[k].content = s3[key]
               /\ \A j \in (k + 1)..Len(log) : log[j].key # key

C5_Witness ==
    /\ pc = "done"
    /\ \E j, k \in 1..Len(log) :
           /\ log[j].op = "upload"
           /\ log[k].op = "upload"
           /\ log[j].path # log[k].path
           /\ log[j].content = log[k].content
           /\ log[j].content = <<"098f6bcd4621d373cade4e832627b4f6">>

\* C6: a failure of fetch, of the read of a local file, of the write of a
\* sidecar or of an upload ends process() with that failure: no list is
\* returned and nothing is read, written, uploaded or cleaned afterwards.
C6_AbortOnFailure ==
    /\ pc = "failed" =>
           /\ result = NoResult
           /\ error # "none"
           /\ log # <<>>
           /\ log[Len(log)].op = "fail"
           /\ log[Len(log)].inv = invocation
    /\ \A k \in 1..(Len(log) - 1) :
           log[k].op = "fail" => log[k + 1].inv > log[k].inv
    /\ pc \in {"return", "done"} =>
           /\ error = "none"
           /\ OpPositions(invocation, "fail") = {}

C6_Witness ==
    /\ pc = "failed"
    /\ error = "UploadError"
    /\ idx = 1
    /\ Len(local_data_file_list) = 2
    /\ DOMAIN s3 = {}

\* C7: process() never mutates the caller-owned input: the granule list, each
\* granule's files and each file's filename and type are after process()
\* (returned or failed) what the caller supplied.
C7_InputUnchanged == payload = supplied

C7_Witness ==
    /\ pc = "done"
    /\ self_input.kind = "list"
    /\ Len(self_input.items) = 1
    /\ Len(SuppliedNames) = 2

\* C8: invoking process() again on the same handler behaves as the first
\* invocation did: when the first invocation returned a list, a later one that
\* meets no failure of fetch, read, write or upload returns the same list.
ExternalErrors == {"FetchError", "FileNotFoundError", "OSError", "UploadError"}

C8_LaterInvocationSame ==
    \A k \in OpPositions(1, "return") :
        (invocation > 1 /\ pc \in {"done", "failed"} /\ error \notin ExternalErrors)
            => result = log[k].content

\* C9: process() resolves to a local path, hashes and uploads a sidecar for
\* exactly the type-"data" filenames that end in .hdf, in input order; a
\* type-"data" file with another name is not fetched.
C9_OnlyHdfFetched ==
    LET hdf == SuppliedDataHdf
        expected == [i \in 1..Len(hdf) |-> TmpDir \o BaseName(hdf[i].filename)]
        data == SuppliedData
    IN  /\ OpPositions(1, "fetch") # {} => local_data_file_list = expected
        /\ \A k \in 1..Len(log) :
               log[k].op = "read" => log[k].path \in Range(expected)
        /\ pc = "done" => { log[k].path : k \in OpPositions(1, "upload") }
                              = { Md5Name(q) : q \in Range(expected) }
        /\ \A k \in 1..Len(data) :
               ~EndsWithHdf(data[k].filename) =>
                   /\ Md5Name(TmpDir \o BaseName(data[k].filename)) \notin DOMAIN files
                   /\ ExpectedKey(config, data[k].filename) \notin DOMAIN s3

C9_Witness ==
    /\ pc = "clean"
    /\ Len(local_data_file_list) = 1
    /\ Len(SuppliedData) = 2
    /\ OpPositions(1, "upload") # {}

\* C10: in every run of process() fetch completes before any file is read;
\* the local files are handled one at a time in list order, each read and
\* hashed, then its sidecar written, then its sidecar uploaded; clean_output
\* is triggered exactly once, after the last upload and before the result is
\* returned, and never in a run that a failure aborted.
UploadsBefore(k) ==
    Cardinality({ j \in 1..(k - 1) : log[j].inv = log[k].inv /\ log[j].op = "upload" })

C10_StepOrder ==
    /\ \A k \in 1..Len(log) :
           LET e == log[k]
               first == k = 1 \/ log[k - 1].inv # e.inv
               prev == log[k - 1]
           IN  /\ e.op = "fetch" => first
               /\ e.op = "read" =>
                      /\ ~first
                      /\ prev.op \in {"fetch", "upload"}
                      /\ UploadsBefore(k) < Len(local_data_file_list)
                      /\ e.path = local_data_file_list[UploadsBefore(k) + 1]
               /\ e.op = "write" =>
                      ~first /\ prev.op = "read" /\ e.path = Md5Name(prev.path)
               /\ e.op = "upload" =>
                      ~first /\ prev.op = "write" /\ e.path = prev.path
               /\ e.op = "clean" =>
                      /\ ~first
                      /\ prev.op \in {"fetch", "upload"}
                      /\ UploadsBefore(k) = Len(local_data_file_list)
               /\ e.op = "return" => ~first /\ prev.op = "clean"
               /\ e.op = "fail" => first \/ prev.op \in {"fetch", "read", "write", "upload"}
    /\ \A v \in 1..invocation :
           /\ Cardinality(OpPositions(v, "clean")) <= 1
           /\ OpPositions(v, "fail") # {} => OpPositions(v, "clean") = {}
           /\ OpPositions(v, "return") # {} => Cardinality(OpPositions(v, "clean")) = 1
    /\ pc = "done" => OpPositions(invocation, "return") # {}

C10_Witness ==
    /\ pc = "done"
    /\ Cardinality(OpPositions(1, "upload")) = 2
    /\ Cardinality(OpPositions(1, "clean")) = 1

====
